---------------------------- MODULE Spec2Model ----------------------------
(***************************************************************************)
(* A model of the crypto confidence-score engine (src/analysis_engine.py)  *)
(* and of the dashboard handler that drives it (src/app.py).               *)
(*                                                                         *)
(* Numbers that the program keeps as floats are modelled exactly, as       *)
(* rationals [n |-> numerator, d |-> denominator] with d > 0.  Values that *)
(* may be missing (a NaN indicator, an absent metadata key) are records    *)
(* [def |-> BOOLEAN, v |-> value].  Python's None is the record None.      *)
(* The market-data provider, the indicator library, the two news sources   *)
(* and the polarity lexicon are outside the repository: what they return   *)
(* is an input, drawn from the bounded sets below.                         *)
(***************************************************************************)
EXTENDS Integers, Sequences, FiniteSets

VARIABLES pc, data, ind, info, yf_news, rss, news_items, tech, fund, sent, score,
          shown, calls, success

vars == <<pc, data, ind, info, yf_news, rss, news_items, tech, fund, sent, score,
          shown, calls, success>>

---------------------------------------------------------------------------
(* Bounds of the model *)

\* closing prices, moving averages and 52-week extremes range over 0..MaxPrice
MaxPrice == 3

\* longest primary (Yahoo Finance) news list
MaxPrimary == 3

\* longest secondary (Google News RSS) feed; above the slice of 5 the code takes
MaxSecondary == 6

---------------------------------------------------------------------------
(* Values *)

None == [isNone |-> TRUE]

NaN == [def |-> FALSE, v |-> 0]

Num(x) == [def |-> TRUE, v |-> x]

Opt(S) == {NaN} \cup {Num(x) : x \in S}

Rat(n, d) == [n |-> n, d |-> d]

RatInt(k) == [n |-> k, d |-> 1]

RatLt(a, b) == a.n * b.d < b.n * a.d

RatLe(a, b) == a.n * b.d <= b.n * a.d

RatEq(a, b) == a.n * b.d = b.n * a.d

RatAdd(a, b) == [n |-> a.n * b.d + b.n * a.d, d |-> a.d * b.d]

RatMul(a, k) == [n |-> a.n * k, d |-> a.d]

RatIsInteger(a) == a.n % a.d = 0

Prices == 1..MaxPrice

\* RSI readings around every threshold calculate_confidence_score compares with
RsiValues == {0, 29, 30, 50, 51, 70, 71, 100}

---------------------------------------------------------------------------
(* analyze_technicals *)

StrongUptrend == <<"Strong", "Uptrend">>

StrongDowntrend == <<"Strong", "Downtrend">>

ModerateUptrend == <<"Moderate", "Uptrend">>

WeakChoppy == <<"Weak/Choppy">>

Trends == {StrongUptrend, StrongDowntrend, ModerateUptrend, WeakChoppy}

\* the fallback for a NaN EMA-200 taken as 0 instead of the current close
Ema200OrCloseZero(raw, current_price) == IF raw.def THEN raw.v ELSE 0

\* ema_200 = EMA_200.iloc[-1] if pd.notna(...) else current_price
Ema200OrClose(raw, current_price) == IF raw.def THEN raw.v ELSE current_price

\* ema_50 = EMA_50.iloc[-1] if pd.notna(...) else current_price
Ema50OrClose(raw, current_price) == IF raw.def THEN raw.v ELSE current_price

\* rsi = RSI.iloc[-1] if pd.notna(...) else 50
RsiOrNeutral(raw) == IF raw.def THEN raw.v ELSE 50

\* the trend chain with the long-term test taken first
TrendLogicEma200First(current_price, ema_50, ema_200) ==
    IF current_price > ema_200 THEN ModerateUptrend
    ELSE IF current_price > ema_50 /\ ema_50 > ema_200 THEN StrongUptrend
    ELSE IF current_price < ema_50 /\ ema_50 < ema_200 THEN StrongDowntrend
    ELSE WeakChoppy

\* the if/elif chain of the trend logic; a > b > c is (a > b) and (b > c)
TrendLogic(current_price, ema_50, ema_200) ==
    IF current_price > ema_50 /\ ema_50 > ema_200 THEN StrongUptrend
    ELSE IF current_price < ema_50 /\ ema_50 < ema_200 THEN StrongDowntrend
    ELSE IF current_price > ema_200 THEN ModerateUptrend
    ELSE WeakChoppy

\* d: the price frame (None, empty, or its last close and volume);
\* i: the last values of the RSI, EMA-50 and EMA-200 columns, NaN when undefined.
\* support and resistance (the 30-bar low and high) are carried by no claim
\* and are left out of the snapshot.
analyze_technicals(d, i) ==
    IF d.isNone \/ d.empty THEN None
    ELSE LET current_price == d.close
             rsi == RsiOrNeutral(i.rsi)
             ema_50 == Ema50OrClose(i.ema_50, current_price)
             ema_200 == Ema200OrClose(i.ema_200, current_price)
         IN [isNone |-> FALSE,
             current_price |-> current_price,
             rsi |-> rsi,
             ema_50 |-> ema_50,
             ema_200 |-> ema_200,
             trend |-> TrendLogic(current_price, ema_50, ema_200)]

---------------------------------------------------------------------------
(* analyze_fundamentals *)

\* circulating and maximum supply range over 0..MaxSupply
MaxSupply == 2

\* a metadata value: the key is absent, holds null, or holds a number
Absent == [kind |-> "absent", v |-> 0]

Null == [kind |-> "null", v |-> 0]

Val(x) == [kind |-> "num", v |-> x]

\* info.get(key, 0): the default only when the key is absent
Get0(x) == IF x.kind = "absent" THEN Val(0) ELSE x

\* Python truthiness of a number or None
Truthy(x) == x.kind = "num" /\ x.v # 0

NoRat == [def |-> FALSE, v |-> RatInt(0)]

SomeRat(r) == [def |-> TRUE, v |-> r]

\* (circulating_supply / max_supply) * 100 when max_supply is truthy and > 0, else 0
SupplyPercent(circulating_supply, max_supply) ==
    IF Truthy(max_supply) /\ max_supply.v > 0
    THEN SomeRat(Rat(circulating_supply.v * 100, max_supply.v))
    ELSE SomeRat(RatInt(0))

\* ((current_price - year_low) / (year_high - year_low)) * 100, or 50
RangePosition(current_price, year_high, year_low) ==
    IF year_high > year_low
    THEN Rat((current_price - year_low) * 100, year_high - year_low)
    ELSE RatInt(50)

\* (volume / mcap) if mcap > 0 else 0
VolMcapRatio(volume, mcap) == IF mcap > 0 THEN Rat(volume, mcap) ELSE RatInt(0)

\* m: the metadata record (None, empty, or its keys); d: the price frame, which
\* the handler has found non-empty before this is called.
analyze_fundamentals(m, d) ==
    IF m.isNone \/ m.empty THEN None
    ELSE LET mcap == Get0(m.marketCap).v
             volume24 == Get0(m.volume24Hr).v
             volume == IF volume24 = 0 /\ ~d.empty THEN d.volume ELSE volume24
             circulating_supply == Get0(m.circulatingSupply)
             max_supply == Get0(m.maxSupply)
             year_high == Get0(m.fiftyTwoWeekHigh).v
             year_low == Get0(m.fiftyTwoWeekLow).v
             current_price == d.close
         IN [isNone |-> FALSE,
             market_cap |-> mcap,
             volume |-> volume,
             vol_mcap_ratio |-> VolMcapRatio(volume, mcap),
             circulating_supply |-> circulating_supply.v,
             max_supply |-> max_supply,
             supply_percent |-> SupplyPercent(circulating_supply, max_supply),
             year_high |-> year_high,
             year_low |-> year_low,
             range_position |-> RangePosition(current_price, year_high, year_low)]

---------------------------------------------------------------------------
(* analyze_sentiment *)

\* a title as a source hands it over: no title at all, a value that is not a
\* string, or a string (possibly empty)
NoTitle == [kind |-> "absent", text |-> ""]

NonStrTitle == [kind |-> "other", text |-> ""]

Str(t) == [kind |-> "str", text |-> t]

\* TextBlob(...).sentiment.polarity fails on this title
PolarityRaises(text) == text = "junk"

\* the lexicon's polarity of a title, in hundredths (a float in [-1, 1])
Polarity(text) ==
    CASE text = "up" -> 50
      [] text = "down" -> -30
      [] OTHER -> 0

\* lst[:5]
Take5(lst) == SubSeq(lst, 1, IF Len(lst) < 5 THEN Len(lst) ELSE 5)

\* title and isinstance(title, str)
ValidTitle(entry) == entry.title.kind = "str" /\ entry.title.text # ""

\* item.title and item.title.text
HasTitleText(entry) == entry.title.kind = "str" /\ entry.title.text # ""

YahooItem(entry) == [title |-> entry.title.text, publisher |-> "Yahoo Finance"]

GoogleItem(entry) == [title |-> entry.title.text, publisher |-> "Google News"]

\* source 1: the titled entries among the first five, in order; nothing when
\* the provider call raises (except Exception: pass)
Source1(yf) ==
    IF yf.fail THEN <<>>
    ELSE LET kept == SelectSeq(Take5(yf.items), ValidTitle)
         IN [k \in 1..Len(kept) |-> YahooItem(kept[k])]

\* the fallback taken when fewer than 3 items were collected
NeedFallbackBelow3(items) == Len(items) < 3

\* if len(items) < 2
NeedFallback(items) == Len(items) < 2

\* source 2: the titled entries among the first five of the feed, appended in
\* order; nothing when the request or the parse raises
Source2(items, resp) ==
    IF resp.fail THEN items
    ELSE LET kept == SelectSeq(Take5(resp.items), HasTitleText)
         IN items \o [k \in 1..Len(kept) |-> GoogleItem(kept[k])]

\* an except clause that lets the exception through
Reraise(exc) == exc

\* except Exception: pass (source 1)
Source1Propagates(exc) == FALSE

\* except Exception as e: print(...) (source 2)
Source2Propagates(exc) == FALSE

\* except Exception: continue (the scoring loop)
ScoringPropagates(exc) == FALSE

\* the body of the scoring loop appends the item
Scored(item) == item.title # "" /\ ~PolarityRaises(item.title)

AnalyzedItem(item) ==
    [title |-> item.title, publisher |-> item.publisher,
     sentiment |-> Polarity(item.title)]

RECURSIVE TotalPolarity(_)
TotalPolarity(analyzed) ==
    IF analyzed = <<>> THEN 0
    ELSE analyzed[1].sentiment + TotalPolarity(Tail(analyzed))

\* the category with the no-news test left out
SentimentOfNoEarlyReturn(items) ==
    LET kept == SelectSeq(items, Scored)
        analyzed_news == [k \in 1..Len(kept) |-> AnalyzedItem(kept[k])]
        avg_polarity == IF analyzed_news # <<>>
                        THEN Rat(TotalPolarity(analyzed_news), 100 * Len(analyzed_news))
                        ELSE RatInt(0)
    IN [isNone |-> FALSE, score |-> avg_polarity,
        text |-> IF RatLt(Rat(1, 10), avg_polarity) THEN "Bullish"
                 ELSE IF RatLt(avg_polarity, Rat(-1, 10)) THEN "Bearish"
                 ELSE "Neutral",
        news_list |-> analyzed_news]

\* the snapshot computed from the collected items
SentimentOf(items) ==
    IF items = <<>>
    THEN [isNone |-> FALSE, score |-> RatInt(0), text |-> "Neutral (No News)",
          news_list |-> <<>>]
    ELSE LET kept == SelectSeq(items, Scored)
             analyzed_news == [k \in 1..Len(kept) |-> AnalyzedItem(kept[k])]
             avg_polarity == IF analyzed_news # <<>>
                             THEN Rat(TotalPolarity(analyzed_news), 100 * Len(analyzed_news))
                             ELSE RatInt(0)
         IN [isNone |-> FALSE, score |-> avg_polarity,
             text |-> IF RatLt(Rat(1, 10), avg_polarity) THEN "Bullish"
                      ELSE IF RatLt(avg_polarity, Rat(-1, 10)) THEN "Bearish"
                      ELSE "Neutral",
             news_list |-> analyzed_news]

\* yf: what asset.news does (raises, or a list of entries); resp: what the RSS
\* request does if it is made.  The result says whether an exception left the
\* function, whether the request was made, the items collected and the snapshot.
analyze_sentiment(yf, resp) ==
    LET primary == Source1(yf)
        queried == NeedFallback(primary)
        items == IF queried THEN Source2(primary, resp) ELSE primary
        raised == \/ Source1Propagates(yf.fail)
                  \/ queried /\ Source2Propagates(resp.fail)
                  \/ \E k \in 1..Len(items) :
                         ScoringPropagates(PolarityRaises(items[k].title))
    IN [raised |-> raised, queried |-> queried, news_items |-> items,
        value |-> SentimentOf(items)]

---------------------------------------------------------------------------
(* calculate_confidence_score *)

\* "sub" in trend, on the words of the trend label
Contains(sub, trend) == \E k \in 1..Len(trend) : trend[k] = sub

RsiDelta(rsi) ==
    IF rsi < 30 THEN 10 ELSE IF rsi > 70 THEN -10 ELSE IF rsi > 50 THEN 2 ELSE 0

\* the trend delta given to the strong trends only
TrendDeltaStrongOnly(trend) ==
    IF trend = StrongUptrend THEN 10
    ELSE IF trend = StrongDowntrend THEN -15
    ELSE 0

\* +10 if "Uptrend" in trend, -15 elif "Downtrend" in trend
TrendDelta(trend) ==
    IF Contains("Uptrend", trend) THEN 10
    ELSE IF Contains("Downtrend", trend) THEN -15
    ELSE 0

Ema200Delta(t) == IF t.current_price > t.ema_200 THEN 5 ELSE 0

LiquidityDelta(ratio) ==
    IF RatLt(Rat(10, 100), ratio) THEN 10
    ELSE IF RatLt(ratio, Rat(2, 100)) THEN -5
    ELSE 0

RangeDelta(range_position) ==
    IF RatLt(range_position, RatInt(20)) THEN 10
    ELSE IF RatLt(RatInt(90), range_position) THEN -10
    ELSE 0

\* sent_impact = sent['score'] * 15
SentImpact(s) == RatMul(s.score, 15)

\* the accumulator before the final clamp
RawScore(t, f, s) ==
    RatAdd(RatInt(50 + RsiDelta(t.rsi) + TrendDelta(t.trend) + Ema200Delta(t)
                     + LiquidityDelta(f.vol_mcap_ratio) + RangeDelta(f.range_position)),
           SentImpact(s))

\* the clamp without its lower limit
ClampUpperOnly(x) == IF RatLt(x, RatInt(100)) THEN x ELSE RatInt(100)

\* max(0, min(100, score))
Clamp(x) ==
    LET upper == IF RatLt(x, RatInt(100)) THEN x ELSE RatInt(100)
    IN IF RatLt(RatInt(0), upper) THEN upper ELSE RatInt(0)

calculate_confidence_score(t, f, s) == Clamp(RawScore(t, f, s))

\* f"{score:.0f}": the nearest integer, a tie going to the even one
FormatScore(x) ==
    LET q == x.n \div x.d
        r == x.n % x.d
    IN IF 2 * r < x.d THEN q
       ELSE IF 2 * r > x.d THEN q + 1
       ELSE IF q % 2 = 0 THEN q ELSE q + 1

---------------------------------------------------------------------------
(* Inputs *)

Frame(c, v) == [isNone |-> FALSE, empty |-> FALSE, close |-> c, volume |-> v]

EmptyFrame == [isNone |-> FALSE, empty |-> TRUE, close |-> 0, volume |-> 0]

NoIndicators == [rsi |-> NaN, ema_50 |-> NaN, ema_200 |-> NaN]

Indicators == [rsi : Opt(RsiValues), ema_50 : Opt(Prices), ema_200 : Opt(Prices)]

EmptyInfo == [isNone |-> FALSE, empty |-> TRUE]

MetaPrices == {Absent} \cup {Val(x) : x \in 0..MaxPrice}

MetaSupplies == {Val(x) : x \in 0..MaxSupply}

MetaMaxSupplies == {Absent, Null, Val(-1)} \cup MetaSupplies

Infos ==
    {None, EmptyInfo} \cup
    [isNone : {FALSE}, empty : {FALSE},
     marketCap : {Absent, Val(0), Val(100)},
     volume24Hr : {Absent, Val(0), Val(1), Val(15)},
     circulatingSupply : MetaSupplies,
     maxSupply : MetaMaxSupplies,
     fiftyTwoWeekHigh : MetaPrices,
     fiftyTwoWeekLow : MetaPrices]

SeqsUpTo(S, n) == UNION {[1..k -> S] : k \in 0..n}

Feed(items) == [fail |-> FALSE, items |-> items]

FailedFeed == [fail |-> TRUE, items |-> <<>>]

\* entries are the dicts (source 1) and <item> tags (source 2) the libraries
\* hand over, so reading one never raises; a source that raises does so
\* before any entry is read
PrimaryEntries == {[title |-> t] : t \in {Str("up"), Str("junk"), NoTitle, NonStrTitle}}

SecondaryEntries == {[title |-> t] : t \in {Str("up"), Str("down"), NoTitle}}

PrimaryFeeds == {FailedFeed} \cup {Feed(f) : f \in SeqsUpTo(PrimaryEntries, MaxPrimary)}

SecondaryResponses ==
    {FailedFeed} \cup {Feed(f) : f \in SeqsUpTo(SecondaryEntries, MaxSecondary)}

NotQueried == [queried |-> FALSE, fail |-> FALSE, items |-> <<>>]

Queried(resp) == [queried |-> TRUE, fail |-> resp.fail, items |-> resp.items]

NothingShown == [kind |-> "none", v |-> 0]

ErrorShown == [kind |-> "error", v |-> 0]

ScoreShown(k) == [kind |-> "score", v |-> k]

\* a fundamental snapshot that moves the score by nothing
NeutralFund ==
    analyze_fundamentals(
        [isNone |-> FALSE, empty |-> FALSE, marketCap |-> Val(100),
         volume24Hr |-> Val(5), circulatingSupply |-> Val(1), maxSupply |-> Val(2),
         fiftyTwoWeekHigh |-> Val(0), fiftyTwoWeekLow |-> Val(0)],
        Frame(1, 5))

\* the snapshot of an analysis that found no news
NoNewsSent == SentimentOf(<<>>)

---------------------------------------------------------------------------
(* analyze_technicals on its own, followed by the score it leads to *)

InitTech ==
    /\ pc = "tech"
    /\ data \in {None, EmptyFrame} \cup {Frame(c, 5) : c \in Prices}
    /\ ind \in Indicators
    /\ info = None
    /\ yf_news = Feed(<<>>)
    /\ rss = NotQueried
    /\ news_items = <<>>
    /\ tech = None
    /\ fund = NeutralFund
    /\ sent = NoNewsSent
    /\ score = NoRat
    /\ shown = NothingShown
    /\ calls = <<>>
    /\ success = FALSE

TechAnalyze ==
    /\ pc = "tech"
    /\ tech' = analyze_technicals(data, ind)
    /\ pc' = "tech_done"
    /\ UNCHANGED <<data, ind, info, yf_news, rss, news_items, fund, sent, score,
                   shown, calls, success>>

TechScore ==
    /\ pc = "tech_done"
    /\ ~tech.isNone
    /\ score' = SomeRat(calculate_confidence_score(tech, fund, sent))
    /\ pc' = "tech_scored"
    /\ UNCHANGED <<data, ind, info, yf_news, rss, news_items, tech, fund, sent,
                   shown, calls, success>>

NextTech == TechAnalyze \/ TechScore

SpecTech == InitTech /\ [][NextTech]_vars

---------------------------------------------------------------------------
(* analyze_fundamentals on its own *)

InitFund ==
    /\ pc = "fund"
    /\ data \in {Frame(c, 5) : c \in Prices}
    /\ ind = NoIndicators
    /\ info \in Infos
    /\ yf_news = Feed(<<>>)
    /\ rss = NotQueried
    /\ news_items = <<>>
    /\ tech = None
    /\ fund = None
    /\ sent = None
    /\ score = NoRat
    /\ shown = NothingShown
    /\ calls = <<>>
    /\ success = FALSE

FundAnalyze ==
    /\ pc = "fund"
    /\ fund' = analyze_fundamentals(info, data)
    /\ pc' = "fund_done"
    /\ UNCHANGED <<data, ind, info, yf_news, rss, news_items, tech, sent, score,
                   shown, calls, success>>

NextFund == FundAnalyze

SpecFund == InitFund /\ [][NextFund]_vars

---------------------------------------------------------------------------
(* analyze_sentiment on its own *)

InitSent ==
    /\ pc = "sent"
    /\ data = None
    /\ ind = NoIndicators
    /\ info = None
    /\ yf_news \in PrimaryFeeds
    /\ rss = NotQueried
    /\ news_items = <<>>
    /\ tech = None
    /\ fund = None
    /\ sent = None
    /\ score = NoRat
    /\ shown = NothingShown
    /\ calls = <<>>
    /\ success = FALSE

SentAnalyze ==
    /\ pc = "sent"
    /\ \E resp \in SecondaryResponses :
           LET r == analyze_sentiment(yf_news, resp)
           IN /\ rss' = IF r.queried THEN Queried(resp) ELSE NotQueried
              /\ news_items' = r.news_items
              /\ sent' = IF r.raised THEN None ELSE r.value
              /\ pc' = IF r.raised THEN "sent_raised" ELSE "sent_done"
    /\ UNCHANGED <<data, ind, info, yf_news, tech, fund, score, shown, calls, success>>

NextSent == SentAnalyze

SpecSent == InitSent /\ [][NextSent]_vars

---------------------------------------------------------------------------
(* calculate_confidence_score on any three snapshots, and the score shown *)

TechSnapshots ==
    {[isNone |-> FALSE, current_price |-> c, rsi |-> r, ema_50 |-> c,
      ema_200 |-> e, trend |-> t] :
        c \in Prices, r \in RsiValues, e \in Prices, t \in Trends}

\* the two fields of the fundamental snapshot the score reads
FundSnapshots ==
    {[isNone |-> FALSE, vol_mcap_ratio |-> Rat(v, 100), range_position |-> RatInt(p)] :
        v \in {1, 2, 10, 15}, p \in {-100, 0, 19, 20, 90, 91, 100, 200}}

\* the field of the sentiment snapshot the score reads, in hundredths
SentSnapshots ==
    {[isNone |-> FALSE, score |-> Rat(h, 100)] : h \in {-100, -13, 0, 20, 50, 100}}

InitScore ==
    /\ pc = "score"
    /\ data = None
    /\ ind = NoIndicators
    /\ info = None
    /\ yf_news = Feed(<<>>)
    /\ rss = NotQueried
    /\ news_items = <<>>
    /\ tech \in TechSnapshots
    /\ fund \in FundSnapshots
    /\ sent \in SentSnapshots
    /\ score = NoRat
    /\ shown = NothingShown
    /\ calls = <<>>
    /\ success = FALSE

ScoreCalculate ==
    /\ pc = "score"
    /\ score' = SomeRat(calculate_confidence_score(tech, fund, sent))
    /\ pc' = "scored"
    /\ UNCHANGED <<data, ind, info, yf_news, rss, news_items, tech, fund, sent,
                   shown, calls, success>>

\* st.metric(label="Investment Confidence", value=f"{score:.0f}/100")
ScoreShow ==
    /\ pc = "scored"
    /\ shown' = ScoreShown(FormatScore(score.v))
    /\ pc' = "shown"
    /\ UNCHANGED <<data, ind, info, yf_news, rss, news_items, tech, fund, sent,
                   score, calls, success>>

NextScore == ScoreCalculate \/ ScoreShow

SpecScore == InitScore /\ [][NextScore]_vars

---------------------------------------------------------------------------
(* The handler of the "Run Deep Analysis" button, one step per call it makes *)

PipeFrames == {EmptyFrame, Frame(1, 5), Frame(MaxPrice, 5)}

PipeInfos ==
    {EmptyInfo,
     [isNone |-> FALSE, empty |-> FALSE, marketCap |-> Val(100),
      volume24Hr |-> Val(15), circulatingSupply |-> Val(1), maxSupply |-> Val(2),
      fiftyTwoWeekHigh |-> Val(MaxPrice), fiftyTwoWeekLow |-> Val(1)],
     [isNone |-> FALSE, empty |-> FALSE, marketCap |-> Absent,
      volume24Hr |-> Absent, circulatingSupply |-> Val(1), maxSupply |-> Absent,
      fiftyTwoWeekHigh |-> Absent, fiftyTwoWeekLow |-> Absent]}

PipeIndicators ==
    {NoIndicators,
     [rsi |-> Num(29), ema_50 |-> Num(1), ema_200 |-> Num(1)],
     [rsi |-> Num(71), ema_50 |-> Num(MaxPrice), ema_200 |-> Num(MaxPrice)]}

PipeFeeds ==
    {FailedFeed, Feed(<<>>), Feed(<<[title |-> Str("junk")]>>),
     Feed(<<[title |-> Str("up")], [title |-> Str("up")]>>)}

PipeResponses == {FailedFeed, Feed(<<[title |-> Str("down")], [title |-> NoTitle]>>)}

\* the else branch taken whatever fetch_data returned
ProceedAlways(ok) == TRUE

\* if not success: st.error(...) else: run the analyses
ProceedAfterFetch(ok) == ok

\* if tech and fund and sent (a snapshot, a non-empty dict, is truthy)
AllPresent(t, f, s) == ~t.isNone /\ ~f.isNone /\ ~s.isNone

Init ==
    /\ pc = "idle"
    /\ data = None
    /\ ind = NoIndicators
    /\ info = None
    /\ yf_news = Feed(<<>>)
    /\ rss = NotQueried
    /\ news_items = <<>>
    /\ tech = None
    /\ fund = None
    /\ sent = None
    /\ score = NoRat
    /\ shown = NothingShown
    /\ calls = <<>>
    /\ success = FALSE

\* analyzer = CryptoAnalyzer(ticker_input); success = analyzer.fetch_data().
\* history() raises (data and info stay None), or returns a frame and info
\* raises (info stays None), or both return; any exception gives False.
FetchData ==
    /\ pc = "idle"
    /\ \E d \in {None} \cup PipeFrames, m \in {None} \cup PipeInfos :
           /\ d.isNone => m.isNone
           /\ data' = d
           /\ info' = m
           /\ success' = IF d.isNone \/ m.isNone THEN FALSE ELSE ~d.empty
    /\ calls' = Append(calls, "fetch_data")
    /\ pc' = "fetched"
    /\ UNCHANGED <<ind, yf_news, rss, news_items, tech, fund, sent, score, shown>>

\* st.error("Could not find data for ...")
ShowFetchError ==
    /\ pc = "fetched"
    /\ ~ProceedAfterFetch(success)
    /\ shown' = ErrorShown
    /\ pc' = "done"
    /\ UNCHANGED <<data, ind, info, yf_news, rss, news_items, tech, fund, sent,
                   score, calls, success>>

AnalyzeTechnicals ==
    /\ pc = "fetched"
    /\ ProceedAfterFetch(success)
    /\ \E i \in PipeIndicators :
           /\ ind' = i
           /\ tech' = analyze_technicals(data, i)
    /\ calls' = Append(calls, "analyze_technicals")
    /\ pc' = "tech_done"
    /\ UNCHANGED <<data, info, yf_news, rss, news_items, fund, sent, score, shown,
                   success>>

AnalyzeFundamentals ==
    /\ pc = "tech_done"
    /\ fund' = analyze_fundamentals(info, data)
    /\ calls' = Append(calls, "analyze_fundamentals")
    /\ pc' = "fund_done"
    /\ UNCHANGED <<data, ind, info, yf_news, rss, news_items, tech, sent, score,
                   shown, success>>

AnalyzeSentiment ==
    /\ pc = "fund_done"
    /\ \E yf \in PipeFeeds, resp \in PipeResponses :
           LET r == analyze_sentiment(yf, resp)
           IN /\ yf_news' = yf
              /\ rss' = IF r.queried THEN Queried(resp) ELSE NotQueried
              /\ news_items' = r.news_items
              /\ sent' = IF r.raised THEN None ELSE r.value
              /\ pc' = IF r.raised THEN "raised" ELSE "sent_done"
    /\ calls' = Append(calls, "analyze_sentiment")
    /\ UNCHANGED <<data, ind, info, tech, fund, score, shown, success>>

\* score = analyzer.calculate_confidence_score(tech, fund, sent), then the header
CalculateConfidenceScore ==
    /\ pc = "sent_done"
    /\ AllPresent(tech, fund, sent)
    /\ score' = SomeRat(calculate_confidence_score(tech, fund, sent))
    /\ shown' = ScoreShown(FormatScore(score'.v))
    /\ calls' = Append(calls, "calculate_confidence_score")
    /\ pc' = "done"
    /\ UNCHANGED <<data, ind, info, yf_news, rss, news_items, tech, fund, sent,
                   success>>

\* the else branch of "if tech and fund and sent": no score is computed
InsufficientData ==
    /\ pc = "sent_done"
    /\ ~AllPresent(tech, fund, sent)
    /\ pc' = "done"
    /\ UNCHANGED <<data, ind, info, yf_news, rss, news_items, tech, fund, sent,
                   score, shown, calls, success>>

\* the next click reruns the script with a new analyzer
Rerun ==
    /\ pc = "done"
    /\ pc' = "idle"
    /\ data' = None
    /\ ind' = NoIndicators
    /\ info' = None
    /\ yf_news' = Feed(<<>>)
    /\ rss' = NotQueried
    /\ news_items' = <<>>
    /\ tech' = None
    /\ fund' = None
    /\ sent' = None
    /\ score' = NoRat
    /\ shown' = NothingShown
    /\ calls' = <<>>
    /\ success' = FALSE

Next ==
    \/ FetchData
    \/ ShowFetchError
    \/ AnalyzeTechnicals
    \/ AnalyzeFundamentals
    \/ AnalyzeSentiment
    \/ CalculateConfidenceScore
    \/ InsufficientData
    \/ Rerun

Spec == Init /\ [][Next]_vars

---------------------------------------------------------------------------
(* Properties of analyze_technicals (checked under SpecTech) *)

TechReturned == pc \in {"tech_done", "tech_scored"} /\ ~tech.isNone

\* C2: the trend is exactly one of the four labels, chosen in priority order:
\* Strong Uptrend iff close > ema50 > ema200; otherwise Strong Downtrend iff
\* close < ema50 < ema200; otherwise Moderate Uptrend iff close > ema200;
\* otherwise Weak/Choppy.
C2_TrendTotalAndPrioritised ==
    TechReturned =>
        LET c == tech.current_price
            up == c > tech.ema_50 /\ tech.ema_50 > tech.ema_200
            down == c < tech.ema_50 /\ tech.ema_50 < tech.ema_200
            above == c > tech.ema_200
        IN /\ Cardinality({t \in Trends : t = tech.trend}) = 1
           /\ (tech.trend = StrongUptrend) <=> up
           /\ (tech.trend = StrongDowntrend) <=> (~up /\ down)
           /\ (tech.trend = ModerateUptrend) <=> (~up /\ ~down /\ above)
           /\ (tech.trend = WeakChoppy) <=> (~up /\ ~down /\ ~above)

\* a close above both averages, where the first test decides before the third
C2_Witness ==
    /\ TechReturned
    /\ tech.trend = StrongUptrend
    /\ tech.current_price > tech.ema_200
    /\ ind.ema_50.def /\ ind.ema_200.def

\* C10: with the EMA-200 undefined the trend is Weak/Choppy whatever the EMA-50
\* is, the score gets no trend delta and no close > EMA200 bonus, and with the
\* RSI undefined too the technical part adds exactly 0 (the score of a neutral
\* fundamental and sentiment snapshot stays at 50).
C10_WarmupIsTrendNeutral ==
    (TechReturned /\ ~ind.ema_200.def) =>
        /\ tech.ema_200 = tech.current_price
        /\ tech.trend = WeakChoppy
        /\ TrendDelta(tech.trend) = 0
        /\ Ema200Delta(tech) = 0
        /\ ~ind.rsi.def =>
               /\ tech.rsi = 50
               /\ RsiDelta(tech.rsi) + TrendDelta(tech.trend) + Ema200Delta(tech) = 0
               /\ pc = "tech_scored" => RatEq(score.v, RatInt(50))

\* warm-up with an EMA-50 below the close, scored
C10_Witness ==
    /\ pc = "tech_scored"
    /\ ~ind.ema_200.def /\ ~ind.rsi.def
    /\ ind.ema_50.def /\ ind.ema_50.v < tech.current_price

---------------------------------------------------------------------------
(* Properties of analyze_fundamentals (checked under SpecFund) *)

FundReturned == pc = "fund_done" /\ ~fund.isNone

\* C7: supply_percent is null iff maxSupply is absent or <= 0, and otherwise
\* equals circulatingSupply / maxSupply * 100, unclamped.
C7_SupplyPercentNullIffNoCap ==
    FundReturned =>
        LET uncapped == info.maxSupply.kind # "num" \/ info.maxSupply.v <= 0
        IN /\ ~fund.supply_percent.def <=> uncapped
           /\ ~uncapped =>
                  RatEq(fund.supply_percent.v,
                        Rat(Get0(info.circulatingSupply).v * 100, info.maxSupply.v))

\* C8: range_position lies in [0, 100] whenever yearHigh > yearLow and equals
\* exactly 50 whenever yearHigh <= yearLow.
C8_RangePositionWithinBand ==
    FundReturned =>
        /\ fund.year_high > fund.year_low =>
               /\ RatLe(RatInt(0), fund.range_position)
               /\ RatLe(fund.range_position, RatInt(100))
        /\ fund.year_high <= fund.year_low => RatEq(fund.range_position, RatInt(50))

---------------------------------------------------------------------------
(* Properties of analyze_sentiment (checked under SpecSent) *)

FirstFive(entries) == [k \in 1..(IF Len(entries) < 5 THEN Len(entries) ELSE 5) |-> entries[k]]

RECURSIVE TitledTexts(_)
TitledTexts(entries) ==
    IF entries = <<>> THEN <<>>
    ELSE LET t == Head(entries).title
         IN (IF t.kind = "str" /\ t.text # "" THEN <<t.text>> ELSE <<>>)
                \o TitledTexts(Tail(entries))

RECURSIVE Scorable(_)
Scorable(titles) ==
    IF titles = <<>> THEN <<>>
    ELSE (IF Head(titles) = "junk" THEN <<>> ELSE <<Head(titles)>>)
             \o Scorable(Tail(titles))

Titles(items) == [k \in 1..Len(items) |-> items[k].title]

\* what each source yields: the non-empty string titles among its first five
\* entries, nothing when the call fails
PrimaryYield == IF yf_news.fail THEN <<>> ELSE TitledTexts(FirstFive(yf_news.items))

SecondaryYield == IF rss.fail THEN <<>> ELSE TitledTexts(FirstFive(rss.items))

\* C4: the secondary source is queried iff the primary yielded fewer than 2
\* titled items; its titled items (at most 5) are appended after the primary
\* ones, untitled ones are dropped, and order is kept.
C4_FallbackAppends ==
    pc = "sent_done" =>
        /\ rss.queried <=> Len(PrimaryYield) < 2
        /\ Len(SecondaryYield) <= 5
        /\ Titles(news_items) =
               IF rss.queried THEN PrimaryYield \o SecondaryYield ELSE PrimaryYield
        /\ \A k \in 1..Len(news_items) :
               news_items[k].publisher =
                   IF k <= Len(PrimaryYield) THEN "Yahoo Finance" ELSE "Google News"
        /\ Titles(sent.news_list) = Scorable(Titles(news_items))

\* primary 1 item, secondary 3 titled and 1 untitled: 4 scored items
C4_Witness ==
    /\ pc = "sent_done"
    /\ Len(PrimaryYield) = 1
    /\ rss.queried /\ ~rss.fail
    /\ Len(rss.items) = 4
    /\ Len(SecondaryYield) = 3
    /\ Len(sent.news_list) = 4

\* C5: analyze_sentiment never raises; whatever fails (primary source,
\* secondary source, the polarity of a headline) it returns a snapshot over
\* the items collected and scored, and a bad headline or entry is skipped
\* while the others are still processed.
C5_SentimentNeverRaises ==
    /\ pc # "sent_raised"
    /\ pc = "sent_done" =>
           /\ ~sent.isNone
           /\ yf_news.fail => rss.queried
           /\ (rss.queried /\ rss.fail) => Titles(news_items) = PrimaryYield
           /\ Len(news_items) =
                  Len(PrimaryYield) + (IF rss.queried THEN Len(SecondaryYield) ELSE 0)
           /\ Len(sent.news_list) =
                  Cardinality({k \in 1..Len(news_items) : news_items[k].title # "junk"})
           /\ \A k \in 1..Len(sent.news_list) : sent.news_list[k].title # "junk"

\* an unscorable headline next to headlines that were scored
C5_Witness ==
    /\ pc = "sent_done"
    /\ \E k \in 1..Len(news_items) : news_items[k].title = "junk"
    /\ sent.news_list # <<>>
    /\ \E k \in 1..Len(rss.items) : rss.items[k].title.kind = "absent"

\* C6: the result is score 0, the no-news category and an empty list exactly
\* when no item was retrieved from either source; with at least one item the
\* category is Bullish, Bearish or Neutral.
C6_NoNewsIffNothingRetrieved ==
    pc = "sent_done" =>
        /\ (sent.text = "Neutral (No News)") <=> (news_items = <<>>)
        /\ news_items = <<>> => (RatEq(sent.score, RatInt(0)) /\ sent.news_list = <<>>)
        /\ news_items # <<>> => sent.text \in {"Bullish", "Bearish", "Neutral"}
        /\ (news_items = <<>>) <=>
               (PrimaryYield = <<>> /\ (rss.queried => SecondaryYield = <<>>))

\* both sources were asked and neither gave an item
C6_Witness ==
    /\ pc = "sent_done"
    /\ rss.queried
    /\ news_items = <<>>
    /\ sent.text = "Neutral (No News)"

---------------------------------------------------------------------------
(* Properties of calculate_confidence_score (checked under SpecScore) *)

ScoreReturned == pc \in {"scored", "shown"}

\* C1: the value returned by calculate_confidence_score is an integer in [0, 100].
C1_ScoreIsIntegerInRange ==
    ScoreReturned =>
        /\ RatIsInteger(score.v)
        /\ RatLe(RatInt(0), score.v)
        /\ RatLe(score.v, RatInt(100))

\* C1 (amended): the value returned lies in [0, 100], clamped to 0 or 100 when
\* the sum of deltas overshoots and equal to that sum otherwise (so not always
\* an integer); the value shown is that number rounded to the nearest integer,
\* an integer in [0, 100].
C1_ScoreClampedShownRounded ==
    LET raw == RawScore(tech, fund, sent)
    IN /\ ScoreReturned =>
              /\ RatLe(RatInt(0), score.v)
              /\ RatLe(score.v, RatInt(100))
              /\ RatLt(raw, RatInt(0)) => RatEq(score.v, RatInt(0))
              /\ RatLt(RatInt(100), raw) => RatEq(score.v, RatInt(100))
              /\ (RatLe(RatInt(0), raw) /\ RatLe(raw, RatInt(100))) => RatEq(score.v, raw)
       /\ pc = "shown" =>
              /\ shown.kind = "score"
              /\ shown.v \in 0..100
              /\ RatLe(RatAdd(RatInt(shown.v), Rat(-1, 2)), score.v)
              /\ RatLe(score.v, RatAdd(RatInt(shown.v), Rat(1, 2)))

\* every delta at its most negative: the sum falls below 0 before the clamp
C1_Witness ==
    /\ pc = "shown"
    /\ RatLt(RawScore(tech, fund, sent), RatInt(0))

\* what the trend adds to the sum before the clamp
TrendShare ==
    RatAdd(RawScore(tech, fund, sent),
           RatMul(RawScore([tech EXCEPT !.trend = WeakChoppy], fund, sent), -1))

\* close=105, ema50=100, ema200=90, RSI=25, ratio=0.15, rangePosition=15, sentiment=0.2
ExampleScore ==
    calculate_confidence_score(
        analyze_technicals(Frame(105, 5),
                           [rsi |-> Num(25), ema_50 |-> Num(100), ema_200 |-> Num(90)]),
        [isNone |-> FALSE, vol_mcap_ratio |-> Rat(15, 100), range_position |-> RatInt(15)],
        [isNone |-> FALSE, score |-> Rat(20, 100)])

\* C9: the trend adds +10 exactly for Strong Uptrend, -15 exactly for Strong
\* Downtrend and 0 for Moderate Uptrend and Weak/Choppy; the example gives 98.
C9_TrendDeltaStrongOnly ==
    /\ ScoreReturned =>
           RatEq(TrendShare,
                 RatInt(IF tech.trend = StrongUptrend THEN 10
                        ELSE IF tech.trend = StrongDowntrend THEN -15
                        ELSE 0))
    /\ RatEq(ExampleScore, RatInt(98))

\* C9 (amended): the trend adds +10 exactly for Strong Uptrend and Moderate
\* Uptrend, -15 exactly for Strong Downtrend and 0 for Weak/Choppy; the
\* example gives 98.
C9_TrendDeltaAnyUptrend ==
    /\ ScoreReturned =>
           RatEq(TrendShare,
                 RatInt(IF tech.trend \in {StrongUptrend, ModerateUptrend} THEN 10
                        ELSE IF tech.trend = StrongDowntrend THEN -15
                        ELSE 0))
    /\ TrendDelta(WeakChoppy) = 0
    /\ RatEq(ExampleScore, RatInt(98))

\* a Moderate Uptrend that has been scored
C9_Witness ==
    /\ pc = "scored"
    /\ tech.trend = ModerateUptrend
    /\ tech.current_price > tech.ema_200

---------------------------------------------------------------------------
(* Property of the handler (checked under Spec) *)

Called(f) == \E k \in 1..Len(calls) : calls[k] = f

\* C3: calculate_confidence_score is called only after fetch_data succeeded
\* and the three analyses returned a snapshot; when fetch_data fails (no
\* series, an empty one, or an error) no analysis and no score is run and an
\* error is shown.
C3_ScoreOnlyAfterAllStages ==
    /\ Called("calculate_confidence_score") =>
           /\ calls = <<"fetch_data", "analyze_technicals", "analyze_fundamentals",
                        "analyze_sentiment", "calculate_confidence_score">>
           /\ success
           /\ ~tech.isNone /\ ~fund.isNone /\ ~sent.isNone
    /\ Called("fetch_data") =>
           (success <=> (~data.isNone /\ ~info.isNone /\ ~data.empty))
    /\ (Called("fetch_data") /\ ~success) =>
           /\ calls = <<"fetch_data">>
           /\ ~score.def
           /\ shown.kind # "score"
           /\ pc = "done" => shown = ErrorShown
    /\ (score.def \/ shown.kind = "score") => Called("calculate_confidence_score")

\* an empty series: the run ended with the error and nothing else was called
C3_Witness ==
    /\ pc = "done"
    /\ ~data.isNone /\ data.empty
    /\ calls = <<"fetch_data">>
    /\ shown = ErrorShown

=============================================================================
